---- MODULE Spec2Model ----
(***************************************************************************)
(* Model of devpod-provider-gcloud: the delete command (package cmd) and   *)
(* the SSH key bootstrap (package ssh).                                    *)
(*                                                                         *)
(* Three specifications over one set of variables:                         *)
(*   Spec      one execution of the delete command (RunE, DeleteCmd.Run)   *)
(*   KeySpec   key bootstrap and retrieval, one operation at a time        *)
(*   RaceSpec  two processes, each running one key operation on the same   *)
(*             initially empty directory, interleaved at system-call level *)
(***************************************************************************)
EXTENDS Naturals, Sequences, FiniteSets

\* ---------------------------------------------------------------- bounds
\* number of key pairs rsa.GenerateKey can hand out in one behaviour
MaxKeys == 3

\* ---------------------------------------------------------------- errors
\* A Go error value: the underlying cause and the labels wrapped around it,
\* outermost first.
NoErr == [cause |-> "nil", labels |-> <<>>]

NewErr(cause) == [cause |-> cause, labels |-> <<>>]

\* errors.Wrap(err, label) / errors.Errorf("label: %v", err)
Wrap(err, label) == [cause |-> err.cause, labels |-> <<label>> \o err.labels]

\* causes the environment can produce
SdkErrs == {"permission denied", "unavailable"}
ConfigErrs == {"missing env", "invalid env"}
IOErrs == {"EIO"}

\* ============================================================ package cmd
Projects == {"proj-a", "proj-b"}
Zones == {"zone-1", "zone-2"}
MachineIDs == {"vm-1", "vm-2", "vm-3"}

\* options.Options as DeleteCmd.Run reads it
OptionsSet == [Project : Projects, Zone : Zones, MachineID : MachineIDs]

NoOptions == [Project |-> "", Zone |-> "", MachineID |-> ""]
NoClient == [project |-> "", zone |-> "", open |-> FALSE]

\* one recorded call on the compute API, with the error it returned
Call(op, project, zone, arg, e) ==
    [op |-> op, project |-> project, zone |-> zone, arg |-> arg, err |-> e]

VARIABLES
    cpc,        \* position of the delete command
    options,    \* result of options.FromEnv
    client,     \* the compute client handle of Run
    deferred,   \* Run's defer stack
    ret,        \* err: the error the latest call returned
    result,     \* error returned by RunE
    calls,      \* calls made on the compute API, in order
    \* ---- package ssh
    umask,      \* file mode creation mask of the process
    dirExists,  \* the key directory exists
    files,      \* the two key files
    dir0,       \* the key files as they were initially
    nextKey,    \* position in the random stream: the next key to be generated
    pc,         \* position of each process
    op,         \* operation each process runs
    keys,       \* privateKey, pubKey locals of prepareDir
    wi,         \* index of the file prepareDir is writing
    err,        \* error the operation returns
    failedAt,   \* the call that produced err
    out,        \* string the operation returns
    entry,      \* the key files as they were when the operation was called
    gen,        \* rsaKeyGen returned a key pair in this operation
    prev        \* the last operation that returned

cmdVars == <<cpc, options, client, deferred, ret, result, calls>>
fsVars == <<umask, dirExists, files, dir0, nextKey>>
procVars == <<pc, op, keys, wi, err, failedAt, out, entry, gen, prev>>
keyVars == <<fsVars, procVars>>
vars == <<cmdVars, keyVars>>

\* variant: the stop operation is called in place of delete
DeleteCallStop(c, o, e) == Call("Stop", c.project, c.zone, o.MachineID, e)

\* the call client.Delete(ctx, options.MachineID) makes on the handle
DeleteCall(c, o, e) == Call("Delete", c.project, c.zone, o.MachineID, e)

\* RunE: options.FromEnv() and its error check
RunE_FromEnv ==
    /\ cpc = "start"
    /\ \/ \E o \in OptionsSet :
            /\ options' = o
            /\ cpc' = "run"
            /\ UNCHANGED <<ret, result>>
       \/ \E e \in ConfigErrs :
            /\ ret' = NewErr(e)
            /\ result' = NewErr(e)
            /\ cpc' = "exit"
            /\ UNCHANGED options
    /\ UNCHANGED <<client, deferred, calls, keyVars>>

\* variant: the error check after NewClient does not return
Run_NewClientGoesOn ==
    /\ cpc = "run"
    /\ \/ /\ calls' = Append(calls, Call("NewClient", options.Project, options.Zone, "", NoErr))
          /\ client' = [project |-> options.Project, zone |-> options.Zone, open |-> TRUE]
          /\ deferred' = <<"Close">>
          /\ UNCHANGED ret
       \/ \E e \in SdkErrs :
            /\ calls' = Append(calls, Call("NewClient", options.Project, options.Zone, "", NewErr(e)))
            /\ ret' = NewErr(e)
            /\ UNCHANGED <<client, deferred>>
    /\ cpc' = "delete"
    /\ UNCHANGED <<options, result, keyVars>>

\* Run: gcloud.NewClient(ctx, options.Project, options.Zone), its error check
\* and the defer statement
Run_NewClient ==
    /\ cpc = "run"
    /\ \/ /\ calls' = Append(calls, Call("NewClient", options.Project, options.Zone, "", NoErr))
          /\ client' = [project |-> options.Project, zone |-> options.Zone, open |-> TRUE]
          /\ deferred' = <<"Close">>
          /\ cpc' = "delete"
          /\ UNCHANGED <<ret, result>>
       \/ \E e \in SdkErrs :
            /\ calls' = Append(calls, Call("NewClient", options.Project, options.Zone, "", NewErr(e)))
            /\ ret' = NewErr(e)
            /\ result' = NewErr(e)
            /\ cpc' = "exit"
            /\ UNCHANGED <<client, deferred>>
    /\ UNCHANGED <<options, keyVars>>

\* variant: Close is called only on the success path, not deferred
Run_DeleteNoDefer ==
    /\ cpc = "delete"
    /\ \/ /\ calls' = Append(calls, DeleteCall(client, options, NoErr))
          /\ ret' = NoErr
          /\ cpc' = "deferred"
          /\ UNCHANGED result
       \/ \E e \in SdkErrs :
            /\ calls' = Append(calls, DeleteCall(client, options, NewErr(e)))
            /\ ret' = NewErr(e)
            /\ result' = NewErr(e)
            /\ cpc' = "exit"
    /\ UNCHANGED <<options, client, deferred, keyVars>>

\* Run: return client.Delete(ctx, options.MachineID); the return value is
\* fixed here, the deferred calls run before Run returns it
Run_Delete ==
    /\ cpc = "delete"
    /\ \E e \in {NoErr} \cup {NewErr(x) : x \in SdkErrs} :
        /\ calls' = Append(calls, DeleteCall(client, options, e))
        /\ ret' = e
    /\ cpc' = "deferred"
    /\ UNCHANGED <<options, client, deferred, result, keyVars>>

\* Run returns: the deferred calls run (here client.Close(), whose result is
\* dropped), then Run and RunE return the value of the return statement
Run_Deferred ==
    /\ cpc = "deferred"
    /\ IF deferred = <<>>
       THEN UNCHANGED <<calls, client, deferred>>
       ELSE /\ calls' = Append(calls, Call(Head(deferred), client.project, client.zone, "", NoErr))
            /\ client' = [client EXCEPT !.open = FALSE]
            /\ deferred' = Tail(deferred)
    /\ result' = ret
    /\ cpc' = "exit"
    /\ UNCHANGED <<options, ret, keyVars>>

CmdInit ==
    /\ cpc = "start"
    /\ options = NoOptions
    /\ client = NoClient
    /\ deferred = <<>>
    /\ ret = NoErr
    /\ result = NoErr
    /\ calls = <<>>

\* ============================================================ package ssh
Procs == {1, 2}

\* file names (DevPodSSHPrivateKeyFile, DevPodSSHPublicKeyFile)
FileNames == {"id_devpod_rsa", "id_devpod_rsa.pub"}
DevPodSSHPrivateKeyFile == "id_devpod_rsa"
DevPodSSHPublicKeyFile == "id_devpod_rsa.pub"

\* permission bits of a regular file, as sets
Mode0600 == {"ur", "uw"}
Mode0644 == {"ur", "uw", "gr", "or"}
Umasks == {{}, {"gw", "ow"}, {"gr", "gw", "or", "ow"}}

\* file contents: an encoding of a key, or something else
NoContent == [enc |-> "none", type |-> "", n |-> 0, d |-> 0]
Empty == [enc |-> "empty", type |-> "", n |-> 0, d |-> 0]
Garbage == [enc |-> "garbage", type |-> "", n |-> 0, d |-> 0]
\* a proper prefix of data, left by a write that was cut off
Partial(data) == [data EXCEPT !.enc = "partial"]

NoFile == [exists |-> FALSE, content |-> NoContent, mode |-> {}]

\* rsa.GenerateKey(rand.Reader, 2048): the k-th key of the random stream
GenerateKey(k) == [n |-> k, d |-> k]
\* crypto.Signer.Public()
Public(raw) == [n |-> raw.n]
\* x509.MarshalPKCS1PrivateKey
MarshalPKCS1PrivateKey(raw) == [der |-> "pkcs1", n |-> raw.n, d |-> raw.d]
\* pem.EncodeToMemory
EncodeToMemory(block) ==
    [enc |-> "pem", type |-> block.Type, n |-> block.Bytes.n, d |-> block.Bytes.d]
\* ssh.NewPublicKey followed by ssh.MarshalAuthorizedKey
MarshalAuthorizedKey(pub) == [enc |-> "authorized_key", type |-> "ssh-rsa", n |-> pub.n, d |-> 0]
\* ssh.ParsePrivateKey: a signer, or an error
ParsePrivateKey(bytes) ==
    IF bytes.enc = "pem" /\ bytes.type = "RSA PRIVATE KEY"
    THEN [ok |-> TRUE, n |-> bytes.n, d |-> bytes.d]
    ELSE [ok |-> FALSE, n |-> 0, d |-> 0]

NoKeys == [privateKey |-> NoContent, publicKey |-> NoContent]

\* variant: the two results are returned in the wrong order
generateKeysSwapped(block, cp) ==
    [privateKey |-> MarshalAuthorizedKey(Public(cp)),
     publicKey |-> EncodeToMemory(block)]

generateKeys(block, cp) ==
    [privateKey |-> EncodeToMemory(block),
     publicKey |-> MarshalAuthorizedKey(Public(cp))]

\* rsaKeyGen on the k-th key of the random stream
rsaKeyGen(k) ==
    LET privateKeyRaw == GenerateKey(k)
    IN  generateKeys([Type |-> "RSA PRIVATE KEY",
                      Bytes |-> MarshalPKCS1PrivateKey(privateKeyRaw)], privateKeyRaw)

\* variant: the test on err is inverted
KeyPairExistsInverted(fs) == ~fs[DevPodSSHPrivateKeyFile].exists

\* prepareDir: `_, err = os.Stat(privateKeyFile)`, err == nil
KeyPairExists(fs) == fs[DevPodSSHPrivateKeyFile].exists

\* variant: the private key file is written first
WriteOrderPrivateFirst == <<DevPodSSHPrivateKeyFile, DevPodSSHPublicKeyFile>>

\* prepareDir: the order of the two os.WriteFile calls
WriteOrder == <<DevPodSSHPublicKeyFile, DevPodSSHPrivateKeyFile>>

\* variant: both files are written with 0644
PermBoth0644(f) == Mode0644

\* prepareDir: the perm argument of each os.WriteFile
Perm(f) == IF f = DevPodSSHPrivateKeyFile THEN Mode0600 ELSE Mode0644

\* variant: the private key is written to both files
DataPrivateKey(f, ks) == ks.privateKey

\* prepareDir: the data argument of each os.WriteFile
Data(f, ks) == IF f = DevPodSSHPrivateKeyFile THEN ks.privateKey ELSE ks.publicKey

\* prepareDir: the label wrapped around each os.WriteFile error
WriteLabel(f) ==
    IF f = DevPodSSHPrivateKeyFile THEN "write private ssh key" ELSE "write public ssh key"

\* variant: both retrieval operations read the public key file
ReadTargetPublic(o) == DevPodSSHPublicKeyFile

\* the file GetPrivateKey / GetPublicKey reads
ReadTarget(o) ==
    IF o = "GetPrivateKey" THEN DevPodSSHPrivateKeyFile ELSE DevPodSSHPublicKeyFile

\* the label GetPrivateKey / GetPublicKey wraps around an os.ReadFile error
ReadLabel(o) == IF o = "GetPrivateKey" THEN "read public ssh key" ELSE "read public ssh key"

\* os.OpenFile(name, O_WRONLY|O_CREATE|O_TRUNC, perm), the first half of
\* os.WriteFile: perm (less the umask) is used only when the file is created
OpenTrunc(file, perm, mask) ==
    IF file.exists
    THEN [file EXCEPT !.content = Empty]
    ELSE [exists |-> TRUE, content |-> Empty, mode |-> perm \ mask]

Ops == {"prepareDir", "GetPrivateKey", "GetPublicKey"}

\* where an operation goes on once prepareDir has returned nil
AfterPrepare(o) == IF o = "prepareDir" THEN "done" ELSE "read"

NoPrev ==
    [valid |-> FALSE, op |-> "", err |-> NoErr, failedAt |-> "", gen |-> FALSE,
     before |-> [f \in FileNames |-> NoFile], after |-> [f \in FileNames |-> NoFile],
     out |-> NoContent]

\* the operation of process p returns e, produced by the call `at`
Fail(p, at, e) ==
    /\ err' = [err EXCEPT ![p] = e]
    /\ failedAt' = [failedAt EXCEPT ![p] = at]
    /\ pc' = [pc EXCEPT ![p] = "done"]

\* a caller invokes prepareDir, GetPrivateKey or GetPublicKey
Start(p) ==
    /\ pc[p] = "idle"
    /\ \E o \in Ops : op' = [op EXCEPT ![p] = o]
    /\ pc' = [pc EXCEPT ![p] = "mkdir"]
    /\ entry' = [entry EXCEPT ![p] = files]
    /\ gen' = [gen EXCEPT ![p] = FALSE]
    /\ keys' = [keys EXCEPT ![p] = NoKeys]
    /\ wi' = [wi EXCEPT ![p] = 1]
    /\ err' = [err EXCEPT ![p] = NoErr]
    /\ failedAt' = [failedAt EXCEPT ![p] = ""]
    /\ out' = [out EXCEPT ![p] = NoContent]
    /\ UNCHANGED <<fsVars, prev, cmdVars>>

\* prepareDir: os.MkdirAll(dir, 0755)
MkdirAll(p) ==
    /\ pc[p] = "mkdir"
    /\ \/ /\ dirExists' = TRUE
          /\ pc' = [pc EXCEPT ![p] = "stat"]
          /\ UNCHANGED <<err, failedAt>>
       \/ \E c \in IOErrs :
            /\ Fail(p, "mkdir", NewErr(c))
            /\ UNCHANGED dirExists
    /\ UNCHANGED <<umask, files, dir0, nextKey, op, keys, wi, out, entry, gen, prev, cmdVars>>

\* prepareDir: os.Stat(privateKeyFile). Stat fails exactly when the file is absent.
Stat(p) ==
    /\ pc[p] = "stat"
    /\ pc' = [pc EXCEPT ![p] = IF KeyPairExists(files) THEN AfterPrepare(op[p]) ELSE "keygen"]
    /\ UNCHANGED <<fsVars, op, keys, wi, err, failedAt, out, entry, gen, prev, cmdVars>>

\* prepareDir: rsaKeyGen() and its error check
KeyGen(p) ==
    /\ pc[p] = "keygen"
    /\ \/ /\ nextKey <= MaxKeys
          /\ keys' = [keys EXCEPT ![p] = rsaKeyGen(nextKey)]
          /\ nextKey' = nextKey + 1
          /\ gen' = [gen EXCEPT ![p] = TRUE]
          /\ pc' = [pc EXCEPT ![p] = "open"]
          /\ UNCHANGED <<err, failedAt>>
       \/ \E c \in IOErrs :
            /\ Fail(p, "keygen", Wrap(Wrap(NewErr(c), "generate private key"), "generate key pair"))
            /\ UNCHANGED <<keys, nextKey, gen>>
    /\ UNCHANGED <<umask, dirExists, files, dir0, op, wi, out, entry, prev, cmdVars>>

\* prepareDir: os.WriteFile, the open(O_CREATE|O_TRUNC) of the file
OpenFile(p) ==
    /\ pc[p] = "open"
    /\ LET f == WriteOrder[wi[p]]
       IN  \/ /\ files' = [files EXCEPT ![f] = OpenTrunc(files[f], Perm(f), umask)]
              /\ pc' = [pc EXCEPT ![p] = "write"]
              /\ UNCHANGED <<err, failedAt>>
           \/ \E c \in IOErrs :
                /\ Fail(p, f, Wrap(NewErr(c), WriteLabel(f)))
                /\ UNCHANGED files
    /\ UNCHANGED <<umask, dirExists, dir0, nextKey, op, keys, wi, out, entry, gen, prev, cmdVars>>

\* prepareDir: os.WriteFile, the write of the data and the error check; a
\* failed write leaves the file as it is or with a prefix of the data
WriteData(p) ==
    /\ pc[p] = "write"
    /\ LET f == WriteOrder[wi[p]]
           data == Data(f, keys[p])
       IN  \/ /\ files' = [files EXCEPT ![f].content = data]
              /\ IF wi[p] < Len(WriteOrder)
                 THEN /\ wi' = [wi EXCEPT ![p] = wi[p] + 1]
                      /\ pc' = [pc EXCEPT ![p] = "open"]
                 ELSE /\ pc' = [pc EXCEPT ![p] = AfterPrepare(op[p])]
                      /\ UNCHANGED wi
              /\ UNCHANGED <<err, failedAt>>
           \/ \E c \in IOErrs :
                /\ Fail(p, f, Wrap(NewErr(c), WriteLabel(f)))
                /\ \/ UNCHANGED files
                   \/ files' = [files EXCEPT ![f].content = Partial(data)]
                /\ UNCHANGED wi
    /\ UNCHANGED <<umask, dirExists, dir0, nextKey, op, keys, out, entry, gen, prev, cmdVars>>

\* GetPrivateKey / GetPublicKey: os.ReadFile and its error check
ReadFile(p) ==
    /\ pc[p] = "read"
    /\ LET f == ReadTarget(op[p])
       IN  \/ /\ files[f].exists
              /\ out' = [out EXCEPT ![p] = files[f].content]
              /\ pc' = [pc EXCEPT ![p] = "done"]
              /\ UNCHANGED <<err, failedAt>>
           \/ \E c \in IOErrs :
                /\ Fail(p, "read", Wrap(NewErr(c), ReadLabel(op[p])))
                /\ UNCHANGED out
    /\ UNCHANGED <<fsVars, op, keys, wi, entry, gen, prev, cmdVars>>

\* the operation has returned to its caller
Return(p) ==
    /\ pc[p] = "done"
    /\ pc' = [pc EXCEPT ![p] = "idle"]
    /\ prev' = [valid |-> TRUE, op |-> op[p], err |-> err[p], failedAt |-> failedAt[p],
                gen |-> gen[p], before |-> entry[p], after |-> files, out |-> out[p]]
    /\ UNCHANGED <<fsVars, op, keys, wi, err, failedAt, out, entry, gen, cmdVars>>

ProcInit ==
    /\ pc = [p \in Procs |-> "idle"]
    /\ op = [p \in Procs |-> "prepareDir"]
    /\ keys = [p \in Procs |-> NoKeys]
    /\ wi = [p \in Procs |-> 1]
    /\ err = [p \in Procs |-> NoErr]
    /\ failedAt = [p \in Procs |-> ""]
    /\ out = [p \in Procs |-> NoContent]
    /\ entry = [p \in Procs |-> files]
    /\ gen = [p \in Procs |-> FALSE]
    /\ prev = NoPrev

\* key files a directory can hold before the program first runs
OldKey == GenerateKey(0)
OldPrivate ==
    {Garbage, EncodeToMemory([Type |-> "RSA PRIVATE KEY", Bytes |-> MarshalPKCS1PrivateKey(OldKey)])}
OldPublic == {Garbage, MarshalAuthorizedKey(Public(OldKey))}
OldFiles(contents) ==
    {NoFile} \cup {[exists |-> TRUE, content |-> c, mode |-> m] : c \in contents, m \in {Mode0600, Mode0644}}

EmptyDir == [f \in FileNames |-> NoFile]

\* an empty or missing directory
FsInitEmpty ==
    /\ umask \in Umasks
    /\ dirExists \in BOOLEAN
    /\ files = EmptyDir
    /\ dir0 = files
    /\ nextKey = 1

\* any directory: missing, empty, or holding key files of any content and mode
FsInitAny ==
    /\ umask \in Umasks
    /\ \/ /\ dirExists = FALSE
          /\ files = EmptyDir
       \/ /\ dirExists = TRUE
          /\ \E a \in OldFiles(OldPrivate), b \in OldFiles(OldPublic) :
                files = [f \in FileNames |-> IF f = DevPodSSHPrivateKeyFile THEN a ELSE b]
    /\ dir0 = files
    /\ nextKey = 1

\* ---------------------------------------------------------- specifications
\* the delete command
Init == CmdInit /\ FsInitEmpty /\ ProcInit /\ umask = {"gw", "ow"} /\ dirExists = FALSE
Next == RunE_FromEnv \/ Run_NewClient \/ Run_Delete \/ Run_Deferred
Spec == Init /\ [][Next]_vars

\* key operations, one at a time
KeyInit == CmdInit /\ FsInitAny /\ ProcInit
KeyNext ==
    \/ Start(1) \/ MkdirAll(1) \/ Stat(1) \/ KeyGen(1)
    \/ OpenFile(1) \/ WriteData(1) \/ ReadFile(1) \/ Return(1)
KeySpec == KeyInit /\ [][KeyNext]_vars

\* two processes, one key operation each, on an empty directory
RaceInit == CmdInit /\ FsInitEmpty /\ ProcInit
RaceNext ==
    \E p \in Procs :
        \/ Start(p) \/ MkdirAll(p) \/ Stat(p) \/ KeyGen(p)
        \/ OpenFile(p) \/ WriteData(p) \/ ReadFile(p)
RaceSpec == RaceInit /\ [][RaceNext]_vars

\* ================================================================ claims
\* ------------------------------------------------------------ package cmd
CallsOf(o) == {i \in DOMAIN calls : calls[i].op = o}
Opened == \E i \in DOMAIN calls : calls[i].op = "NewClient" /\ calls[i].err = NoErr
OpenFailed == \E i \in DOMAIN calls : calls[i].op = "NewClient" /\ calls[i].err # NoErr

\* C1: once the delete command has run with a loaded configuration on a client
\* that opened, the compute API has seen exactly one Delete call, for the
\* configured machineID on the handle opened for the configured project and
\* zone, and no create, start or stop call was ever made.
C1_OneDeleteCall ==
    /\ \A i \in DOMAIN calls : calls[i].op \notin {"Create", "Start", "Stop"}
    /\ (cpc = "exit" /\ Opened) =>
          /\ Cardinality(CallsOf("Delete")) = 1
          /\ \A i \in CallsOf("Delete") :
                /\ calls[i].project = options.Project
                /\ calls[i].zone = options.Zone
                /\ calls[i].arg = options.MachineID
          /\ client.project = options.Project
          /\ client.zone = options.Zone

C1_Witness ==
    /\ cpc = "exit"
    /\ result = NoErr
    /\ options = [Project |-> "proj-b", Zone |-> "zone-2", MachineID |-> "vm-3"]
    /\ Cardinality(CallsOf("Delete")) = 1

\* C2: a failure of configuration loading, of opening the client or of the
\* Delete call is what the command returns, unchanged and non-nil; nothing is
\* retried; after a configuration failure no call was made, after a failed
\* open no further call, and after a failed Delete only the release of the
\* handle.
C2_ErrorsPropagate ==
    /\ Cardinality(CallsOf("NewClient")) <= 1
    /\ Cardinality(CallsOf("Delete")) <= 1
    /\ \A i \in DOMAIN calls :
          /\ (calls[i].op = "NewClient" /\ calls[i].err # NoErr) => Len(calls) = i
          /\ (calls[i].op = "Delete" /\ calls[i].err # NoErr) =>
                \A j \in DOMAIN calls : j > i => calls[j].op = "Close"
          /\ (cpc = "exit" /\ calls[i].err # NoErr) =>
                (result = calls[i].err /\ result # NoErr)
    /\ (cpc = "exit" /\ options = NoOptions) =>
          (calls = <<>> /\ result = ret /\ result # NoErr /\ result.cause \in ConfigErrs)

C2_Witness ==
    /\ cpc = "exit"
    /\ OpenFailed
    /\ result = NewErr("unavailable")

\* C8: the handle lives inside one execution of Run: if it was opened, then by
\* the time Run has returned Close was called exactly once, as the last call,
\* after the one Delete call, whatever Delete returned, and the handle is
\* closed; Close is never called while Run has not returned from Delete; if
\* the open failed there is neither a Delete nor a Close call.
C8_HandleScoped ==
    /\ (cpc = "exit" /\ Opened) =>
          /\ Cardinality(CallsOf("Close")) = 1
          /\ calls[Len(calls)].op = "Close"
          /\ Len(calls) >= 2 /\ calls[Len(calls) - 1].op = "Delete"
          /\ ~client.open
    /\ cpc \in {"start", "run", "delete"} => CallsOf("Close") = {}
    /\ client.open => (Opened /\ cpc \in {"delete", "deferred"})
    /\ OpenFailed => (CallsOf("Delete") = {} /\ CallsOf("Close") = {} /\ ~client.open)

C8_Witness ==
    /\ cpc = "exit"
    /\ Opened
    /\ result # NoErr
    /\ Cardinality(CallsOf("Close")) = 1

\* ------------------------------------------------------------ package ssh
\* prepareDir has returned nil in the operation process p runs
Prepared(p) ==
    \/ pc[p] = "read"
    \/ pc[p] = "done" /\ (err[p] = NoErr \/ failedAt[p] = "read")

PrevPrepared == prev.valid /\ (prev.err = NoErr \/ prev.failedAt = "read")

\* the private key file parses to a signer whose public key, in authorized-key
\* format, is the content of the public key file
RoundTrip(fs) ==
    /\ fs[DevPodSSHPrivateKeyFile].exists
    /\ fs[DevPodSSHPublicKeyFile].exists
    /\ LET signer == ParsePrivateKey(fs[DevPodSSHPrivateKeyFile].content)
       IN  /\ signer.ok
           /\ fs[DevPodSSHPublicKeyFile].content = MarshalAuthorizedKey(Public(signer))

Generating == {"keygen", "open", "write"}

C5_ModesAfterBootstrap ==
    \A p \in Procs :
        Prepared(p) =>
            /\ files[DevPodSSHPrivateKeyFile].mode = {"ur", "uw"}
            /\ files[DevPodSSHPublicKeyFile].exists =>
                  files[DevPodSSHPublicKeyFile].mode = {"ur", "uw", "gr", "or"}

\* C5 as amended: after a successful bootstrap a key file that the bootstrap
\* created has the requested mode less the umask (0600 for the private file,
\* 0644 for the public file), and a key file that was already there has the
\* mode it had.
C5_ModesOfCreatedFiles ==
    \A p \in Procs :
        Prepared(p) =>
            /\ files[DevPodSSHPrivateKeyFile].exists
            /\ \A f \in FileNames :
                  files[f].exists =>
                     files[f].mode =
                        IF entry[p][f].exists THEN entry[p][f].mode
                        ELSE IF f = "id_devpod_rsa" THEN {"ur", "uw"} \ umask
                        ELSE {"ur", "uw", "gr", "or"} \ umask

C5_Witness ==
    /\ Prepared(1) /\ gen[1] /\ umask = {"gw", "ow"}
    /\ entry[1][DevPodSSHPublicKeyFile].exists
    /\ entry[1][DevPodSSHPublicKeyFile].mode = Mode0600
    /\ files[DevPodSSHPublicKeyFile].mode = Mode0600
    /\ files[DevPodSSHPrivateKeyFile].mode = Mode0600

\* C6: after a bootstrap that generated a key pair and returned nil, one
\* operation at a time, the private key file parses to a signer whose public
\* key in authorized-key format is exactly the public key file.
C6_RoundTrip ==
    \A p \in Procs : (Prepared(p) /\ gen[p]) => RoundTrip(files)

C6_Witness ==
    /\ dir0 = EmptyDir /\ entry[1] = EmptyDir
    /\ pc[1] = "done" /\ op[1] = "prepareDir" /\ err[1] = NoErr /\ gen[1]
    /\ files[DevPodSSHPrivateKeyFile].content.enc = "pem"

\* the label that names the call an error came from
StageLabel(at, o) ==
    CASE at = "mkdir" -> "create directory"
      [] at = "keygen" -> "generate key pair"
      [] at = DevPodSSHPublicKeyFile -> "write public ssh key"
      [] at = DevPodSSHPrivateKeyFile -> "write private ssh key"
      [] at = "read" /\ o = "GetPrivateKey" -> "read private ssh key"
      [] OTHER -> "read public ssh key"

\* C7 as claimed: an error returned by bootstrap or retrieval is wrapped, and
\* its outermost label names the call that failed.
C7_ErrorsLabelled ==
    \A p \in Procs :
        (pc[p] = "done" /\ err[p] # NoErr) =>
            /\ err[p].labels # <<>>
            /\ Head(err[p].labels) = StageLabel(failedAt[p], op[p])

\* C9 as claimed: once two processes that both started on the empty directory
\* have returned from bootstrap without error, the key files round-trip.
C9_RaceConsistent ==
    (\A p \in Procs : Prepared(p) /\ entry[p] = EmptyDir) => RoundTrip(files)

\* C9 as amended: once both processes have returned from bootstrap without
\* error, the key files round-trip provided at most one of the two generated
\* a key pair.
C9_OneGeneratorConsistent ==
    ((\A p \in Procs : Prepared(p)) /\ Cardinality({p \in Procs : gen[p]}) <= 1)
        => RoundTrip(files)

C9_Witness ==
    /\ \A p \in Procs : Prepared(p) /\ entry[p] = EmptyDir
    /\ gen[1] /\ ~gen[2]
    /\ RoundTrip(files)

====
